---- MODULE Spec2Model ----
(***************************************************************************)
(* A model of src/fs/dir.rs: the manifest resolver (ManifestInfo,          *)
(* find_manifest, find_manifest_for_ghost, is_valid_ghost_dir), ghost      *)
(* synthesis (get_ghosts), the directory snapshot (Dir) and the listing    *)
(* iterator (Files).                                                       *)
(*                                                                         *)
(* Strings are sequences of one-character strings, so that starts_with,    *)
(* strip_prefix and split('/') work on characters as in the source.        *)
(* Paths are sequences of components, as std::path::Path::components       *)
(* gives them: an absolute path starts with the RootDir component.         *)
(***************************************************************************)
EXTENDS Naturals, Sequences, FiniteSets, TLC

(***************************************************************************)
(* Option values.                                                          *)
(***************************************************************************)
None == [some |-> FALSE]

Some(v) == [some |-> TRUE, val |-> v]

IsSome(o) == o.some

(***************************************************************************)
(* Strings.                                                                *)
(***************************************************************************)
Slash == "/"

DotChar == "."

\* str::starts_with
StartsWith(s, p) == Len(p) <= Len(s) /\ SubSeq(s, 1, Len(p)) = p

\* str::strip_prefix: the rest of s after p, when s starts with p
StrStripPrefix(s, p) ==
    IF StartsWith(s, p) THEN Some(SubSeq(s, Len(p) + 1, Len(s))) ELSE None

\* s.split('/').next().unwrap(): s up to its first '/', all of s without one
FirstSegment(s) ==
    LET cut == { i \in 1..Len(s) : s[i] = Slash }
    IN  IF cut = {} THEN s
        ELSE SubSeq(s, 1, (CHOOSE i \in cut : \A j \in cut : i <= j) - 1)

(***************************************************************************)
(* Paths.                                                                  *)
(***************************************************************************)
RootDir == <<Slash>>

ParentDir == <<DotChar, DotChar>>

\* Path::join with a relative child of at most one component (joining the
\* empty path adds no component)
Join(path, name) == IF name = <<>> THEN path ELSE Append(path, name)

\* Path::file_name: the last component when it is a normal one
FileName(path) ==
    IF path = <<>> \/ path[Len(path)] \in {RootDir, ParentDir} THEN None
    ELSE Some(path[Len(path)])

\* Path::parent: the path without its last component; none for the root
\* and for the empty path
Parent(path) ==
    IF path = <<>> \/ path = <<RootDir>> THEN None
    ELSE Some(SubSeq(path, 1, Len(path) - 1))

\* Path::strip_prefix: by whole components
PathStripPrefix(path, base) ==
    IF Len(base) <= Len(path) /\ SubSeq(path, 1, Len(base)) = base
    THEN Some(SubSeq(path, Len(base) + 1, Len(path)))
    ELSE None

\* Path::to_string_lossy of a relative path: its components joined by '/'
RECURSIVE ToStringLossy(_)
ToStringLossy(rel) ==
    IF rel = <<>> THEN <<>>
    ELSE IF Len(rel) = 1 THEN rel[1]
    ELSE rel[1] \o <<Slash>> \o ToStringLossy(Tail(rel))

IsRelative(path) == path = <<>> \/ path[1] # RootDir

RECURSIVE Reverse(_)
Reverse(s) == IF s = <<>> THEN <<>> ELSE Append(Reverse(Tail(s)), Head(s))

(***************************************************************************)
(* Names, paths and manifest keys the model draws its inputs from.         *)
(***************************************************************************)
nA == <<"a">>

nB == <<"b">>

nG == <<"g">>

nL == <<"l">>

nO == <<"o">>

nAB == <<"a", "b">>

nMeta == <<DotChar, "m", "e", "t", "a">>

SrcName == <<"s", "r", "c">>

pRoot == <<RootDir>>

pSrc == <<RootDir, SrcName>>

pSrcA == <<RootDir, SrcName, nA>>

pLink == <<RootDir, nL>>

pOut == <<RootDir, nO>>

pSrcG == <<RootDir, SrcName, nG>>

pSrcAB == <<RootDir, SrcName, nA, nB>>

pSrcABA == <<RootDir, SrcName, nA, nB, nA>>

\* /src/src: a directory named src inside /src
pSrcSrc == <<RootDir, SrcName, SrcName>>

\* "//"
SS == <<Slash, Slash>>

Key(rel) == SS \o ToStringLossy(rel)

(***************************************************************************)
(* The filesystem the program runs against.  A world fixes one directory   *)
(* of interest (its site), what the OS answers for it and the manifest     *)
(* file of the directory /src above it:                                    *)
(*   site.path    the path as the caller gives it                          *)
(*   site.cwd     std::env::current_dir(), as an Option                    *)
(*   site.nmiss   how many trailing components of the absolute path do     *)
(*                not exist on disk                                        *)
(*   site.real    the canonical path of the part that exists               *)
(*   site.perm    whether the OS lets the directory be opened              *)
(*   site.entry_err  whether reading an entry of the opened directory      *)
(*                fails                                                    *)
(*   children     the entries fs::read_dir yields, in its order            *)
(*   mst          the manifest file /src/.meta/manifest.json: "absent",    *)
(*                "unreadable", "unparsable" or "ok"                       *)
(*   keys         the keys of the manifest's JSON object                   *)
(*   inner        the same four states for /src/src/.meta/manifest.json,   *)
(*                the manifest file of a directory src inside /src         *)
(*   target       what the entry named a of /src resolves to: "self",      *)
(*                "gone" (it does not canonicalize) or "outside" (a path   *)
(*                that is not below /src)                                  *)
(***************************************************************************)
Site(path, cwd, nmiss, real, perm) ==
    [path |-> path, cwd |-> cwd, nmiss |-> nmiss, real |-> real, perm |-> perm,
     entry_err |-> FALSE]

sSrc == Site(pSrc, Some(pRoot), 0, pSrc, TRUE)

sSrcA == Site(pSrcA, Some(pRoot), 0, pSrcA, TRUE)

\* /l is a symbolic link to /src/a
sLink == Site(pLink, Some(pRoot), 0, pSrcA, TRUE)

sOut == Site(pOut, Some(pRoot), 0, pOut, TRUE)

\* a directory the process may not read
sDenied == Site(pSrcA, Some(pRoot), 0, pSrcA, FALSE)

\* /src/a exists, /src/a/b does not
sGhost == Site(pSrcAB, Some(pRoot), 1, pSrcA, TRUE)

\* /src/a exists, /src/a/b and /src/a/b/a do not
sGhostDeep == Site(pSrcABA, Some(pRoot), 2, pSrcA, TRUE)

\* /src exists, /src/g does not
sGhostTop == Site(pSrcG, Some(pRoot), 1, pSrc, TRUE)

\* the relative path "b" given from /src/a, where it does not exist
sGhostRel == Site(<<nB>>, Some(pSrcA), 1, pSrcA, TRUE)

\* a relative path when the current directory cannot be determined
sNoCwd == Site(<<nB>>, None, 1, pSrcA, TRUE)

\* /o exists, /o/g does not
sGhostOut == Site(<<RootDir, nO, nG>>, Some(pRoot), 1, pOut, TRUE)

\* /src/a opens, and reading one of its entries fails
sEntryError == [sSrcA EXCEPT !.entry_err = TRUE]

RealSites == {sSrc, sSrcA, sLink, sOut}

GhostSites == {sGhost, sGhostDeep, sGhostTop, sGhostRel, sNoCwd, sGhostOut}

Sites == RealSites \cup GhostSites \cup {sDenied, sEntryError}

\* std::fs::DirEntry: a file name and what file_type() says
DirEntry(name, dir_flag) == [name |-> name, is_dir |-> dir_flag]

eA == DirEntry(nA, TRUE)

eB == DirEntry(nB, FALSE)

eMeta == DirEntry(nMeta, TRUE)

EntryUniverse == {eA, eB, eMeta}

\* the manifest keys the worlds draw from, each "//" and a relative path
kA == Key(<<nA>>)

kAB == Key(<<nA, nB>>)

kABA == Key(<<nA, nB, nA>>)

kB == Key(<<nB>>)

kAbA == Key(<<nAB, nA>>)

\* "//a/": a key ending in a slash
kASlash == Key(<<nA>>) \o <<Slash>>

\* "//a//b": consecutive slashes
kADouble == Key(<<nA>>) \o <<Slash, Slash>> \o nB

\* "//.meta/a"
kMetaA == Key(<<nMeta, nA>>)

KeyUniverse == {kA, kAB, kABA, kB, kAbA, kASlash, kADouble, kMetaA}

ManifestStates == {"absent", "unreadable", "unparsable", "ok"}

MaxEntries == 2

MaxKeys == 2

\* the sequences of at most n distinct elements of S
DistinctSeqs(S, n) ==
    { q \in UNION { [1..k -> S] : k \in 0..n } :
        \A i, j \in 1..Len(q) : i # j => q[i] # q[j] }

World(site, children, mst, keys) ==
    [site |-> site, children |-> children, mst |-> mst, keys |-> keys,
     inner |-> "absent", target |-> "self", stray |-> FALSE]

\* the absolute path of the site and the part of it that exists
SiteAbs(w) ==
    IF IsRelative(w.site.path) /\ IsSome(w.site.cwd)
    THEN w.site.cwd.val \o w.site.path
    ELSE w.site.path

SiteExisting(w) == SubSeq(SiteAbs(w), 1, Len(SiteAbs(w)) - w.site.nmiss)

Targets == {"self", "gone", "outside"}

\* The worlds: only a directory that exists and can be opened has children,
\* a manifest file that is there puts .meta among the children of /src,
\* only a directory below /src has a manifest above it and only a manifest
\* that parses has keys.  The entry a resolves elsewhere, or not at all,
\* only where the listing asks: in /src under a manifest that parses.
Worlds ==
    { w \in { [World(s, c, m, k) EXCEPT !.target = t] :
                s \in Sites,
                c \in DistinctSeqs(EntryUniverse, MaxEntries),
                m \in ManifestStates,
                k \in { K \in SUBSET KeyUniverse : Cardinality(K) <= MaxKeys },
                t \in Targets } :
        /\ (w.site.nmiss > 0 \/ ~w.site.perm) => w.children = <<>>
        /\ w.mst # "ok" => w.keys = {}
        /\ ~IsSome(PathStripPrefix(w.site.real, pSrc)) => w.mst = "absent"
        /\ w.site.entry_err => w.mst = "absent"
        /\ (w.site.real = pSrc /\ w.site.nmiss = 0 /\ w.mst # "absent")
              => \E i \in 1..Len(w.children) : w.children[i] = eMeta
        /\ w.target # "self" =>
              /\ w.site = sSrc
              /\ w.mst = "ok"
              /\ \E i \in 1..Len(w.children) : w.children[i] = eA }

\* Path::exists, of an absolute path
Exists(w, p) ==
    \/ IsSome(PathStripPrefix(SiteExisting(w), p))
    \/ /\ w.site.nmiss = 0
       /\ \E i \in 1..Len(w.children) : p = Join(SiteAbs(w), w.children[i].name)

\* Path::canonicalize: fails for a path that does not exist; the site's
\* existing part resolves to site.real, and an entry of the site to its
\* name below site.real
Canonicalize(w, p) ==
    LET abs == IF IsRelative(p) /\ IsSome(w.site.cwd) THEN w.site.cwd.val \o p
               ELSE p
    IN  IF IsRelative(abs) \/ ~Exists(w, abs) THEN None
        ELSE IF abs = Join(SiteAbs(w), nA) /\ w.target = "gone" THEN None
        ELSE IF abs = Join(SiteAbs(w), nA) /\ w.target = "outside"
             THEN Some(Join(pOut, nA))
        ELSE IF abs = SiteExisting(w) THEN Some(w.site.real)
        ELSE IF IsSome(PathStripPrefix(SiteExisting(w), abs)) THEN Some(abs)
        ELSE Some(Join(w.site.real, abs[Len(abs)]))

\* fs::read_dir(path): the OS's error, or the items of the ReadDir
\* iterator, each an entry or an error
ReadDirItems(w, p) ==
    IF p = w.site.path /\ w.site.nmiss = 0 /\ w.site.perm
    THEN Some([i \in 1..Len(w.children) |-> Some(w.children[i])]
              \o (IF w.site.entry_err THEN <<None>> ELSE <<>>))
    ELSE None

\* collect::<Result<Vec<_>, _>>(): the entries, or the first error
Collect(items) ==
    IF \E i \in 1..Len(items) : ~IsSome(items[i]) THEN None
    ELSE Some([i \in 1..Len(items) |-> items[i].val])

\* fs::read_dir(path)?.collect::<Result<Vec<_>, _>>()?
ReadDirOS(w, p) ==
    IF IsSome(ReadDirItems(w, p)) THEN Collect(ReadDirItems(w, p).val) ELSE None

(***************************************************************************)
(* ManifestInfo.                                                           *)
(***************************************************************************)
ManifestInfo(src_root, entries) == [src_root |-> src_root, entries |-> entries]

\* is_zone answering true for every path that a key starts with
is_zone_by_prefix(m, target_path) ==
    \E key \in m.entries : StartsWith(key, target_path)

is_zone(m, target_path) == target_path \in m.entries

\* target_path_for without the test for the empty relative path
target_path_for_root_too(m, canonical_path) ==
    LET rel_path == PathStripPrefix(canonical_path, m.src_root)
    IN  IF ~IsSome(rel_path) THEN None
        ELSE Some(SS \o ToStringLossy(rel_path.val))

target_path_for(m, canonical_path) ==
    LET rel_path == PathStripPrefix(canonical_path, m.src_root)
    IN  IF ~IsSome(rel_path) THEN None
        ELSE IF rel_path.val = <<>> THEN None
        ELSE Some(SS \o ToStringLossy(rel_path.val))

(***************************************************************************)
(* The manifest resolver.                                                  *)
(***************************************************************************)
\* current.join(".meta/manifest.json").exists()
ManifestPathExists(w, current) ==
    \/ current = pSrc /\ w.mst # "absent"
    \/ current = pSrcSrc /\ w.inner # "absent"
    \/ current = w.site.real /\ w.stray

\* how the manifest file of src_root opens and parses
ManifestState(w, src_root) == IF src_root = pSrcSrc THEN w.inner ELSE w.mst

\* the loop of find_manifest_from_canonical taking the closest ancestor
\* that holds a manifest file, whatever its name
RECURSIVE FindSrcRoot_any_name(_, _)
FindSrcRoot_any_name(w, current) ==
    IF ManifestPathExists(w, current)
    THEN Some(current)
    ELSE IF IsSome(Parent(current)) THEN FindSrcRoot_any_name(w, Parent(current).val)
    ELSE None

\* the loop of find_manifest_from_canonical: the closest ancestor named
\* src that holds a manifest file
RECURSIVE FindSrcRoot(_, _)
FindSrcRoot(w, current) ==
    IF FileName(current) = Some(SrcName) /\ ManifestPathExists(w, current)
    THEN Some(current)
    ELSE IF IsSome(Parent(current)) THEN FindSrcRoot(w, Parent(current).val)
    ELSE None

\* find_manifest_from_canonical going on to the ancestors of a src whose
\* manifest does not open or parse
RECURSIVE find_manifest_from_canonical_falls_back(_, _)
find_manifest_from_canonical_falls_back(w, canonical_path) ==
    LET src_root == FindSrcRoot(w, canonical_path)
    IN  IF ~IsSome(src_root) THEN None
        ELSE IF ManifestState(w, src_root.val) = "ok"
             THEN Some(ManifestInfo(src_root.val, w.keys))
        ELSE IF IsSome(Parent(src_root.val))
             THEN find_manifest_from_canonical_falls_back(w, Parent(src_root.val).val)
        ELSE None

find_manifest_from_canonical(w, canonical_path) ==
    LET src_root == FindSrcRoot(w, canonical_path)
    IN  IF ~IsSome(src_root) THEN None
        ELSE IF ManifestState(w, src_root.val) = "unreadable" THEN None
        ELSE IF ManifestState(w, src_root.val) = "unparsable" THEN None
        ELSE Some(ManifestInfo(src_root.val, w.keys))

find_manifest(w, start_path) ==
    LET canonical_path == Canonicalize(w, start_path)
    IN  IF ~IsSome(canonical_path) THEN None
        ELSE find_manifest_from_canonical(w, canonical_path.val)

\* the loop of find_manifest_for_ghost: up to the nearest ancestor that
\* exists, collecting the file names passed, bottom up
RECURSIVE GhostWalk(_, _, _)
GhostWalk(w, existing_ancestor, ghost_suffix_components) ==
    IF Exists(w, existing_ancestor)
    THEN Some([ancestor |-> existing_ancestor,
               components |-> ghost_suffix_components])
    ELSE LET file_name == FileName(existing_ancestor)
             pushed == IF IsSome(file_name)
                       THEN Append(ghost_suffix_components, file_name.val)
                       ELSE ghost_suffix_components
             parent == Parent(existing_ancestor)
         IN  IF IsSome(parent) /\ parent.val # <<>>
             THEN GhostWalk(w, parent.val, pushed)
             ELSE None

find_manifest_for_ghost(w, path) ==
    IF IsRelative(path) /\ ~IsSome(w.site.cwd) THEN None
    ELSE
    LET start_path == IF IsRelative(path) THEN w.site.cwd.val \o path ELSE path
        walk == GhostWalk(w, start_path, <<>>)
    IN  IF ~IsSome(walk) THEN None
        ELSE
        LET canonical_ancestor == Canonicalize(w, walk.val.ancestor)
        IN  IF ~IsSome(canonical_ancestor) THEN None
            ELSE
            LET full_path == canonical_ancestor.val \o Reverse(walk.val.components)
                manifest_info ==
                    find_manifest_from_canonical(w, canonical_ancestor.val)
            IN  IF ~IsSome(manifest_info) THEN None
                ELSE Some(<<manifest_info.val, full_path>>)

\* is_valid_ghost_dir with the prefix built without its closing slash
is_valid_ghost_dir_no_slash(w, path) ==
    LET found == find_manifest_for_ghost(w, path)
    IN  IF ~IsSome(found) THEN None
        ELSE
        LET manifest_info == found.val[1]
            canonical_path == found.val[2]
            rel_path == PathStripPrefix(canonical_path, manifest_info.src_root)
        IN  IF ~IsSome(rel_path) THEN None
            ELSE
            LET prefix == SS \o ToStringLossy(rel_path.val)
                has_children ==
                    \E key \in manifest_info.entries : StartsWith(key, prefix)
            IN  IF has_children THEN Some(<<manifest_info, canonical_path>>)
                ELSE None

is_valid_ghost_dir(w, path) ==
    LET found == find_manifest_for_ghost(w, path)
    IN  IF ~IsSome(found) THEN None
        ELSE
        LET manifest_info == found.val[1]
            canonical_path == found.val[2]
            rel_path == PathStripPrefix(canonical_path, manifest_info.src_root)
        IN  IF ~IsSome(rel_path) THEN None
            ELSE
            LET prefix == SS \o ToStringLossy(rel_path.val) \o <<Slash>>
                has_children ==
                    \E key \in manifest_info.entries : StartsWith(key, prefix)
            IN  IF has_children THEN Some(<<manifest_info, canonical_path>>)
                ELSE None

(***************************************************************************)
(* Listing entries (crate::fs::File), as far as dir.rs sets or reads them. *)
(***************************************************************************)
\* File::filename: the last component of the path
Filename(path) == path[Len(path)]

\* DirEntry::path: the path read joined with the entry's file name
EntryPath(dir, entry) == Join(dir.path, entry.name)

File(kind, path, name, dir_flag, zone_flag) ==
    [kind |-> kind, path |-> path, name |-> name, is_dir |-> dir_flag,
     is_zone |-> zone_flag]

\* File::new_ghost(path, dir, name, is_zone): a virtual directory
NewGhost(path, name, zone_flag) == File("ghost", path, name, TRUE, zone_flag)

\* File::from_args(path, dir, filename, ..., file_type)
FromArgs(path, filename, dir_flag) == File("real", path, filename, dir_flag, FALSE)

\* File::new_aa_current(dir, ..): the entry "."
NewAaCurrent(dir) == File("dot", dir.path, <<DotChar>>, TRUE, FALSE)

\* File::new_aa_parent(parent, dir, ..): the entry ".."
NewAaParent(parent) == File("dotdot", parent, ParentDir, TRUE, FALSE)

(***************************************************************************)
(* Ghost synthesis.                                                        *)
(***************************************************************************)
\* the logical prefix of a directory rel_path below src_root
GhostPrefix(rel_path) ==
    IF rel_path = <<>> THEN SS
    ELSE SS \o ToStringLossy(rel_path) \o <<Slash>>

ExistingNames(dir) ==
    { Filename(EntryPath(dir, dir.contents[i])) : i \in 1..Len(dir.contents) }

\* GhostNames with the whole suffix taken for the name, not its first component
GhostNames_whole_suffix(dir, manifest_info, prefix) ==
    { StrStripPrefix(key, prefix).val :
        key \in { k \in manifest_info.entries :
                    /\ IsSome(StrStripPrefix(k, prefix))
                    /\ StrStripPrefix(k, prefix).val # <<>>
                    /\ StrStripPrefix(k, prefix).val \notin ExistingNames(dir) } }

\* GhostNames with no look at the names of the entries read
GhostNames_ignoring_contents(dir, manifest_info, prefix) ==
    { FirstSegment(StrStripPrefix(key, prefix).val) :
        key \in { k \in manifest_info.entries :
                    /\ IsSome(StrStripPrefix(k, prefix))
                    /\ StrStripPrefix(k, prefix).val # <<>> } }

\* the loop over manifest_info.entries: the first components of the
\* non-empty suffixes that are not the name of an entry read
GhostNames(dir, manifest_info, prefix) ==
    { FirstSegment(StrStripPrefix(key, prefix).val) :
        key \in { k \in manifest_info.entries :
                    /\ IsSome(StrStripPrefix(k, prefix))
                    /\ StrStripPrefix(k, prefix).val # <<>>
                    /\ FirstSegment(StrStripPrefix(k, prefix).val)
                          \notin ExistingNames(dir) } }

\* GhostFor with every ghost that has a key at or below it taken for a zone
GhostFor_zone_by_descendant(dir, manifest_info, prefix, name) ==
    NewGhost(Join(dir.path, name), name,
             \E key \in manifest_info.entries : StartsWith(key, prefix \o name))

\* the ghost of one name: a zone when prefix + name is a key
GhostFor(dir, manifest_info, prefix, name) ==
    NewGhost(Join(dir.path, name), name, is_zone(manifest_info, prefix \o name))

\* get_ghosts with a canonical path outside src_root listed as src_root is
get_ghosts_outside_as_root(w, dir, manifest_info, ghost_canonical) ==
    IF ~IsSome(manifest_info) THEN {}
    ELSE
    LET canonical_path == IF IsSome(ghost_canonical) THEN ghost_canonical
                          ELSE Canonicalize(w, dir.path)
    IN  IF ~IsSome(canonical_path) THEN {}
        ELSE
        LET rel_path == PathStripPrefix(canonical_path.val,
                                        manifest_info.val.src_root)
            prefix == IF IsSome(rel_path) THEN GhostPrefix(rel_path.val) ELSE SS
        IN  { GhostFor(dir, manifest_info.val, prefix, name) :
                name \in GhostNames(dir, manifest_info.val, prefix) }

\* get_ghosts, as the set of the ghosts it returns: ghost_names is a
\* HashSet, so their order in the vector returned is any order
get_ghosts(w, dir, manifest_info, ghost_canonical) ==
    IF ~IsSome(manifest_info) THEN {}
    ELSE
    LET canonical_path == IF IsSome(ghost_canonical) THEN ghost_canonical
                          ELSE Canonicalize(w, dir.path)
    IN  IF ~IsSome(canonical_path) THEN {}
        ELSE
        LET rel_path == PathStripPrefix(canonical_path.val,
                                        manifest_info.val.src_root)
        IN  IF ~IsSome(rel_path) THEN {}
            ELSE
            LET prefix == GhostPrefix(rel_path.val)
            IN  { GhostFor(dir, manifest_info.val, prefix, name) :
                    name \in GhostNames(dir, manifest_info.val, prefix) }

\* the orders a set can be iterated in
Orderings(S) ==
    { q \in [1..Cardinality(S) -> S] :
        \A i, j \in 1..Cardinality(S) : i # j => q[i] # q[j] }

(***************************************************************************)
(* The state: the world, the caller's Dir (an Option), the Files iterator  *)
(* borrowed from it (an Option), and what the caller has seen:             *)
(*   call       the arguments of the Dir::files call that made the         *)
(*              iterator, with the ghost vector it computed                *)
(*   out        the entries Files::next has returned, in order             *)
(*   ret        the last call made: its name, its argument (an Option),    *)
(*              whether it succeeded or answered true, and the value it    *)
(*              returned (an Option)                                       *)
(*   populated  whether an OS read has filled the Dir's contents           *)
(*   effects    the calls the last operation made to the OS, the manifest  *)
(*              resolver and the GitCache, in order                        *)
(*   second     a second Files iterator borrowed from the same Dir while   *)
(*              the first is alive (an Option of the iterator and of what  *)
(*              it has returned)                                           *)
(***************************************************************************)
VARIABLES world, dir, files, call, out, ret, populated, effects, second

vars == <<world, dir, files, call, out, ret, populated, effects, second>>

Ret(op, arg, ok, val) == [op |-> op, arg |-> arg, ok |-> ok, val |-> val]

(***************************************************************************)
(* Dir.                                                                    *)
(***************************************************************************)
DirRec(contents, path, ghost_info) ==
    [contents |-> contents, path |-> path, ghost_info |-> ghost_info]

new(path) == DirRec(<<>>, path, None)

new_ghost(path, manifest_info, canonical_path) ==
    DirRec(<<>>, path, Some(<<manifest_info, canonical_path>>))

is_ghost(d) == IsSome(d.ghost_info)

\* read without the test for a ghost
read_unguarded(w, d) ==
    LET listing == ReadDirOS(w, d.path)
    IN  IF IsSome(listing)
        THEN [dir |-> [d EXCEPT !.contents = listing.val], os |-> TRUE, ok |-> TRUE]
        ELSE [dir |-> d, os |-> TRUE, ok |-> FALSE]

\* read keeping the entries that could be read and dropping the errors
read_skips_errors(w, d) ==
    IF IsSome(d.ghost_info) THEN [dir |-> d, os |-> FALSE, ok |-> TRUE]
    ELSE LET items == ReadDirItems(w, d.path)
         IN  IF IsSome(items)
             THEN LET kept == SelectSeq(items.val, LAMBDA it : IsSome(it))
                  IN  [dir |-> [d EXCEPT !.contents =
                                   [i \in 1..Len(kept) |-> kept[i].val]],
                       os |-> TRUE, ok |-> TRUE]
             ELSE [dir |-> d, os |-> TRUE, ok |-> FALSE]

\* Dir::read: the Dir afterwards and whether the OS was asked, as
\* [dir, os, ok]
read(w, d) ==
    IF IsSome(d.ghost_info) THEN [dir |-> d, os |-> FALSE, ok |-> TRUE]
    ELSE LET listing == ReadDirOS(w, d.path)
         IN  IF IsSome(listing)
             THEN [dir |-> [d EXCEPT !.contents = listing.val],
                   os |-> TRUE, ok |-> TRUE]
             ELSE [dir |-> d, os |-> TRUE, ok |-> FALSE]

\* Dir::read_dir: the Dir made, or the OS's error
read_dir(w, path) ==
    LET listing == ReadDirOS(w, path)
    IN  IF IsSome(listing) THEN Some(DirRec(listing.val, path, None)) ELSE None

\* Dir::contains
contains(d, path) ==
    \E i \in 1..Len(d.contents) : EntryPath(d, d.contents[i]) = path

\* Dir::join
join(d, child) == d.path \o child

(***************************************************************************)
(* DotFilter.                                                              *)
(***************************************************************************)
DotFilter == {"DotfilesAndDots", "Dotfiles", "JustFiles"}

\* shows_dotfiles with dotfiles shown only along with the pseudo-entries
shows_dotfiles_only_with_dots(filter) == filter = "DotfilesAndDots"

shows_dotfiles(filter) ==
    CASE filter = "JustFiles" -> FALSE
      [] filter = "Dotfiles" -> TRUE
      [] filter = "DotfilesAndDots" -> TRUE

dots(filter) ==
    CASE filter = "JustFiles" -> "Files"
      [] filter = "Dotfiles" -> "Files"
      [] filter = "DotfilesAndDots" -> "Dot"

(***************************************************************************)
(* Files.                                                                  *)
(***************************************************************************)
\* the GitCache a caller may pass: the file names it reports as ignored
GitCaches == {None, Some({nB})}

\* git.map(|g| g.get(&path, false)).unwrap_or_default().unstaged == Ignored
GitIgnored(git, path) == IsSome(git) /\ Filename(path) \in git.val

\* Dir::files with the ghost vector in the order `ghosts`
FilesRec(d, filter, git, git_ignoring, ghosts, manifest_info) ==
    [inner |-> d.contents, dotfiles |-> shows_dotfiles(filter),
     dots |-> dots(filter), git |-> git, git_ignoring |-> git_ignoring,
     ghosts |-> ghosts, manifest_info |-> manifest_info]

\* the manifest and canonical path Dir::files resolves, as
\* <<manifest_info, ghost_canonical>>
FilesContext(w, d) ==
    IF IsSome(d.ghost_info)
    THEN <<Some(ManifestInfo(d.ghost_info.val[1].src_root,
                             d.ghost_info.val[1].entries)),
           Some(d.ghost_info.val[2])>>
    ELSE <<find_manifest(w, d.path), None>>

\* FilesGhosts with no_ghosts left unread
FilesGhosts_always(w, d, no_ghosts) ==
    get_ghosts(w, d, FilesContext(w, d)[1], FilesContext(w, d)[2])

\* the ghosts Dir::files asks for
FilesGhosts(w, d, no_ghosts) ==
    IF no_ghosts THEN {}
    ELSE get_ghosts(w, d, FilesContext(w, d)[1], FilesContext(w, d)[2])

\* the calls Dir::files makes: find_manifest unless the Dir is a ghost,
\* get_ghosts unless no_ghosts is set
FilesCalls(d, no_ghosts) ==
    (IF IsSome(d.ghost_info) THEN <<>> ELSE <<"find_manifest">>)
    \o (IF no_ghosts THEN <<>> ELSE <<"get_ghosts">>)

\* Files::parent
FilesParent(d) == Join(d.path, ParentDir)

\* RealZone with the path as read taken where it does not canonicalize
RealZone_uncanonicalized(w, f, path, dir_flag) ==
    IF dir_flag /\ IsSome(f.manifest_info)
    THEN LET canonical == IF IsSome(Canonicalize(w, path))
                          THEN Canonicalize(w, path).val ELSE path
             target_path == target_path_for(f.manifest_info.val, canonical)
         IN  IF IsSome(target_path)
             THEN is_zone(f.manifest_info.val, target_path.val)
             ELSE FALSE
    ELSE FALSE

\* the zone flag next_visible_file gives a real entry
RealZone(w, f, path, dir_flag) ==
    IF dir_flag /\ IsSome(f.manifest_info) /\ IsSome(Canonicalize(w, path))
    THEN LET target_path ==
                 target_path_for(f.manifest_info.val, Canonicalize(w, path).val)
         IN  IF IsSome(target_path)
             THEN is_zone(f.manifest_info.val, target_path.val)
             ELSE FALSE
    ELSE FALSE

\* Skips with the GitCache's answer taken whether or not git_ignoring is set
Skips_git_always(f, path, filename) ==
    \/ ~f.dotfiles /\ StartsWith(filename, <<DotChar>>)
    \/ GitIgnored(f.git, path)

\* whether next_visible_file skips an entry
Skips(f, path, filename) ==
    \/ ~f.dotfiles /\ StartsWith(filename, <<DotChar>>)
    \/ f.git_ignoring /\ GitIgnored(f.git, path)

\* the calls next_visible_file makes for one entry: the GitCache is asked
\* when git_ignoring is set, there is a cache and the dotfile test let the
\* entry through; a directory that is kept is canonicalized when there is
\* a manifest
EntryCalls(f, path, filename, dir_flag) ==
    IF ~f.dotfiles /\ StartsWith(filename, <<DotChar>>) THEN <<>>
    ELSE (IF f.git_ignoring /\ IsSome(f.git) THEN <<"GitCache::get">> ELSE <<>>)
         \o (IF ~Skips(f, path, filename) /\ dir_flag /\ IsSome(f.manifest_info)
             THEN <<"canonicalize">> ELSE <<>>)

\* Files::next_visible_file: the file found, if any, the iterator
\* afterwards and the calls made, as [file, files, calls]
RECURSIVE next_visible_file(_, _, _)
next_visible_file(w, d, f) ==
    IF f.inner = <<>> THEN [file |-> None, files |-> f, calls |-> <<>>]
    ELSE LET entry == Head(f.inner)
             rest == [f EXCEPT !.inner = Tail(f.inner)]
             path == EntryPath(d, entry)
             filename == Filename(path)
             calls == EntryCalls(f, path, filename, entry.is_dir)
         IN  IF Skips(f, path, filename)
             THEN [next_visible_file(w, d, rest) EXCEPT !.calls = calls \o @]
             ELSE [file |-> Some([FromArgs(path, filename, entry.is_dir)
                                    EXCEPT !.is_zone =
                                        RealZone(w, f, path, entry.is_dir)]),
                   files |-> rest, calls |-> calls]

\* next with the Files phase draining the ghosts before the real entries
next_ghosts_first(w, d, f) ==
    CASE f.dots = "Dot" ->
            [file |-> Some(NewAaCurrent(d)), files |-> [f EXCEPT !.dots = "DotDot"],
             calls |-> <<>>]
      [] f.dots = "DotDot" ->
            [file |-> Some(NewAaParent(FilesParent(d))),
             files |-> [f EXCEPT !.dots = "Files"], calls |-> <<>>]
      [] f.dots = "Files" ->
            IF f.ghosts # <<>>
            THEN [file |-> Some(Head(f.ghosts)),
                  files |-> [f EXCEPT !.ghosts = Tail(@)], calls |-> <<>>]
            ELSE next_visible_file(w, d, f)

\* next starting over on the real entries once the ghosts are drained
next_restarts(w, d, f) ==
    CASE f.dots = "Dot" ->
            [file |-> Some(NewAaCurrent(d)), files |-> [f EXCEPT !.dots = "DotDot"],
             calls |-> <<>>]
      [] f.dots = "DotDot" ->
            [file |-> Some(NewAaParent(FilesParent(d))),
             files |-> [f EXCEPT !.dots = "Files"], calls |-> <<>>]
      [] f.dots = "Files" ->
            LET found == next_visible_file(w, d, f)
            IN  IF IsSome(found.file) THEN found
                ELSE IF found.files.ghosts = <<>>
                     THEN [file |-> None,
                           files |-> [found.files EXCEPT !.inner = d.contents],
                           calls |-> found.calls]
                     ELSE [file |-> Some(Head(found.files.ghosts)),
                           files |-> [found.files EXCEPT !.ghosts = Tail(@)],
                           calls |-> found.calls]

\* next asking get_ghosts again once the real entries are through
next_resolves(w, d, f) ==
    CASE f.dots = "Dot" ->
            [file |-> Some(NewAaCurrent(d)), files |-> [f EXCEPT !.dots = "DotDot"],
             calls |-> <<>>]
      [] f.dots = "DotDot" ->
            [file |-> Some(NewAaParent(FilesParent(d))),
             files |-> [f EXCEPT !.dots = "Files"], calls |-> <<>>]
      [] f.dots = "Files" ->
            LET found == next_visible_file(w, d, f)
                again == get_ghosts(w, d, f.manifest_info, FilesContext(w, d)[2])
            IN  IF IsSome(found.file) THEN found
                ELSE IF found.files.ghosts = <<>>
                     THEN [file |-> None, files |-> found.files,
                           calls |-> found.calls \o <<"get_ghosts">>]
                     ELSE [file |-> Some(CHOOSE g \in again : TRUE),
                           files |-> [found.files EXCEPT !.ghosts = Tail(@)],
                           calls |-> found.calls \o <<"get_ghosts">>]

\* Iterator::next for Files: [file, files, calls]
next(w, d, f) ==
    CASE f.dots = "Dot" ->
            [file |-> Some(NewAaCurrent(d)), files |-> [f EXCEPT !.dots = "DotDot"],
             calls |-> <<>>]
      [] f.dots = "DotDot" ->
            [file |-> Some(NewAaParent(FilesParent(d))),
             files |-> [f EXCEPT !.dots = "Files"], calls |-> <<>>]
      [] f.dots = "Files" ->
            LET found == next_visible_file(w, d, f)
            IN  IF IsSome(found.file) THEN found
                ELSE IF found.files.ghosts = <<>>
                     THEN [file |-> None, files |-> found.files,
                           calls |-> found.calls]
                     ELSE [file |-> Some(Head(found.files.ghosts)),
                           files |-> [found.files EXCEPT !.ghosts = Tail(@)],
                           calls |-> found.calls]

(***************************************************************************)
(* The operations, as a caller may make them.  A Files iterator borrows    *)
(* its Dir (&'dir self), so Dir::read (&mut self) can run only while no    *)
(* iterator is alive.                                                      *)
(***************************************************************************)
Init ==
    /\ world \in Worlds
    /\ dir = None
    /\ files = None
    /\ call = None
    /\ out = <<>>
    /\ ret = Ret("init", None, TRUE, None)
    /\ populated = FALSE
    /\ effects = <<>>
    /\ second = None

DirNew ==
    /\ ~IsSome(dir)
    /\ dir' = Some(new(world.site.path))
    /\ ret' = Ret("new", None, TRUE, None)
    /\ effects' = <<>>
    /\ UNCHANGED <<world, files, call, out, populated, second>>

\* what a caller may hand to Dir::new_ghost for a path that is not on disk:
\* what find_manifest_for_ghost found for it (is_valid_ghost_dir hands on
\* the same pair), or a manifest with a canonical path that is not below
\* its src_root
GhostArgs(w) ==
    (IF IsSome(find_manifest_for_ghost(w, w.site.path))
     THEN {find_manifest_for_ghost(w, w.site.path).val} ELSE {})
    \cup
    (IF w.mst = "ok" THEN {<<ManifestInfo(pSrc, w.keys), Join(pOut, nG)>>}
     ELSE {})

DirNewGhost ==
    /\ ~IsSome(dir)
    /\ world.site.nmiss > 0
    /\ \E args \in GhostArgs(world) :
          dir' = Some(new_ghost(world.site.path, args[1], args[2]))
    /\ ret' = Ret("new_ghost", None, TRUE, None)
    /\ effects' = <<>>
    /\ UNCHANGED <<world, files, call, out, populated, second>>

DirRead ==
    /\ IsSome(dir)
    /\ ~IsSome(files)
    /\ LET r == read(world, dir.val)
       IN  /\ dir' = Some(r.dir)
           /\ ret' = Ret(IF r.os THEN "read" ELSE "read_ghost", None, r.ok, None)
           /\ populated' = (populated \/ (r.os /\ r.ok))
           /\ effects' = IF r.os THEN <<"fs::read_dir">> ELSE <<>>
    /\ UNCHANGED <<world, files, call, out, second>>

DirReadDir ==
    /\ ~IsSome(dir)
    /\ LET r == read_dir(world, world.site.path)
       IN  /\ dir' = r
           /\ ret' = Ret("read_dir", None, IsSome(r), None)
           /\ populated' = IsSome(r)
    /\ effects' = <<"fs::read_dir">>
    /\ UNCHANGED <<world, files, call, out, second>>

DirFiles ==
    /\ IsSome(dir)
    /\ ~IsSome(files)
    /\ \E filter \in DotFilter, git \in GitCaches, git_ignoring \in BOOLEAN,
          no_ghosts \in BOOLEAN :
        \E ghosts \in Orderings(FilesGhosts(world, dir.val, no_ghosts)) :
            /\ files' = Some(FilesRec(dir.val, filter, git, git_ignoring, ghosts,
                                      FilesContext(world, dir.val)[1]))
            /\ call' = Some([dots |-> filter, git |-> git,
                             git_ignoring |-> git_ignoring,
                             no_ghosts |-> no_ghosts, ghosts |-> ghosts])
            /\ effects' = FilesCalls(dir.val, no_ghosts)
    /\ out' = <<>>
    /\ ret' = Ret("files", None, TRUE, None)
    /\ UNCHANGED <<world, dir, populated, second>>

\* FilesNext with the iterator draining the Dir's own vector
FilesNext_drains ==
    /\ IsSome(dir)
    /\ IsSome(files)
    /\ LET r == next(world, dir.val, files.val)
       IN  /\ files' = Some(r.files)
           /\ dir' = Some([dir.val EXCEPT !.contents = r.files.inner])
           /\ out' = IF IsSome(r.file) THEN Append(out, r.file.val) ELSE out
           /\ ret' = Ret("next", None, TRUE, r.file)
           /\ effects' = r.calls
    /\ UNCHANGED <<world, call, populated, second>>

FilesNext ==
    /\ IsSome(dir)
    /\ IsSome(files)
    /\ LET r == next(world, dir.val, files.val)
       IN  /\ files' = Some(r.files)
           /\ out' = IF IsSome(r.file) THEN Append(out, r.file.val) ELSE out
           /\ ret' = Ret("next", None, TRUE, r.file)
           /\ effects' = r.calls
    /\ UNCHANGED <<world, dir, call, populated, second>>

\* the iterator is dropped: the borrow of the Dir ends
FilesDrop ==
    /\ IsSome(files)
    /\ files' = None
    /\ call' = None
    /\ out' = <<>>
    /\ ret' = Ret("drop", None, TRUE, None)
    /\ effects' = <<>>
    /\ UNCHANGED <<world, dir, populated, second>>

\* Dir::contains and Dir::join take &self and return a value
DirContains ==
    /\ IsSome(dir)
    /\ \E name \in {nA, nB} :
          contains(dir.val, Join(dir.val.path, name)) \in BOOLEAN
    /\ UNCHANGED vars

DirJoin ==
    /\ IsSome(dir)
    /\ \E name \in {nA, nB} : Len(join(dir.val, <<name>>)) > 0
    /\ UNCHANGED vars

Next ==
    \/ DirNew
    \/ DirNewGhost
    \/ DirRead
    \/ DirReadDir
    \/ DirFiles
    \/ FilesNext
    \/ FilesDrop
    \/ DirContains
    \/ DirJoin

Spec == Init /\ [][Next]_vars

(***************************************************************************)
(* The manifest resolver's functions called on their own: the world is     *)
(* drawn as above, and each call leaves its argument and result in ret.    *)
(***************************************************************************)
\* the ManifestInfo a caller holds in this world, if one can be resolved
WorldManifest(w) == find_manifest_from_canonical(w, w.site.real)

\* /src2/a: beside src_root, its name an extension of src_root's
pSrc2A == <<RootDir, SrcName \o <<"2">>, nA>>

PathProbes == {pRoot, pSrc, pSrcA, pSrcAB, pSrcABA, pOut, pSrc2A}

CallIsZone ==
    /\ IsSome(WorldManifest(world))
    /\ \E target_path \in KeyUniverse :
          ret' = Ret("is_zone", Some(target_path),
                     is_zone(WorldManifest(world).val, target_path), None)
    /\ effects' = <<>>
    /\ UNCHANGED <<world, dir, files, call, out, populated, second>>

CallTargetPathFor ==
    /\ IsSome(WorldManifest(world))
    /\ \E canonical_path \in PathProbes :
          ret' = Ret("target_path_for", Some(canonical_path), TRUE,
                     target_path_for(WorldManifest(world).val, canonical_path))
    /\ effects' = <<>>
    /\ UNCHANGED <<world, dir, files, call, out, populated, second>>

CallIsValidGhostDir ==
    /\ ret' = Ret("is_valid_ghost_dir", Some(world.site.path), TRUE,
                  is_valid_ghost_dir(world, world.site.path))
    /\ effects' = <<>>
    /\ UNCHANGED <<world, dir, files, call, out, populated, second>>

NextManifest ==
    \/ CallIsZone
    \/ CallTargetPathFor
    \/ CallIsValidGhostDir

SpecManifest == Init /\ [][NextManifest]_vars

(***************************************************************************)
(* find_manifest and find_manifest_for_ghost called on their own, also on  *)
(* paths at and below /src/src, a directory named src inside /src with a   *)
(* manifest file of its own, and on a path that ends in "..".              *)
(***************************************************************************)
\* /src/src/a exists
sInner == Site(Join(pSrcSrc, nA), Some(pRoot), 0, Join(pSrcSrc, nA), TRUE)

\* /src/src exists, /src/src/g does not
sInnerGhost == Site(Join(pSrcSrc, nG), Some(pRoot), 1, pSrcSrc, TRUE)

\* /src/a exists, /src/a/g does not: the path /src/a/g/..
sDotDot == Site(<<RootDir, SrcName, nA, nG, ParentDir>>, Some(pRoot), 2, pSrcA, TRUE)

\* /src/src/src2 exists: a directory whose name only starts with src
sSrc2 == Site(Join(pSrcSrc, SrcName \o <<"2">>), Some(pRoot), 0,
              Join(pSrcSrc, SrcName \o <<"2">>), TRUE)

\* the worlds where the directory asked about, not named src, holds a
\* manifest file of its own
StrayWorlds ==
    { w \in { [World(s, <<>>, m, k) EXCEPT !.inner = i, !.stray = TRUE] :
                s \in {sInner, sSrc2},
                m \in ManifestStates,
                i \in ManifestStates,
                k \in { K \in SUBSET KeyUniverse : Cardinality(K) <= MaxKeys } } :
        (w.mst # "ok" /\ w.inner # "ok") => w.keys = {} }

\* the worlds of the listing and the worlds of these paths, both manifest
\* files holding the same keys
ResolverWorlds ==
    Worlds
    \cup StrayWorlds
    \cup { w \in { [World(s, <<>>, m, k) EXCEPT !.inner = i] :
                    s \in {sInner, sInnerGhost, sDotDot},
                    m \in ManifestStates,
                    i \in ManifestStates,
                    k \in { K \in SUBSET KeyUniverse : Cardinality(K) <= MaxKeys } } :
              /\ (w.mst # "ok" /\ w.inner # "ok") => w.keys = {}
              /\ w.site = sDotDot => w.inner = "absent" }

InitResolver ==
    /\ world \in ResolverWorlds
    /\ dir = None
    /\ files = None
    /\ call = None
    /\ out = <<>>
    /\ ret = Ret("init", None, TRUE, None)
    /\ populated = FALSE
    /\ effects = <<>>
    /\ second = None

CallFindManifest ==
    /\ ret' = Ret("find_manifest", Some(world.site.path), TRUE,
                  find_manifest(world, world.site.path))
    /\ effects' = <<>>
    /\ UNCHANGED <<world, dir, files, call, out, populated, second>>

CallFindManifestForGhost ==
    /\ ret' = Ret("find_manifest_for_ghost", Some(world.site.path), TRUE,
                  find_manifest_for_ghost(world, world.site.path))
    /\ effects' = <<>>
    /\ UNCHANGED <<world, dir, files, call, out, populated, second>>

NextResolver ==
    \/ CallFindManifest
    \/ CallFindManifestForGhost

SpecResolver == InitResolver /\ [][NextResolver]_vars

(***************************************************************************)
(* Two Files iterators borrowed from one Dir (Dir::files takes &self, so   *)
(* any number may be alive), the second made with the arguments of the     *)
(* first at any moment of the first's life, the two advanced in any        *)
(* interleaving.  The worlds are those of a listing of /src.               *)
(***************************************************************************)
TwoWorlds ==
    { w \in Worlds : w.site = sSrc /\ w.keys \subseteq {kA, kB, kMetaA} }

InitTwo ==
    /\ world \in TwoWorlds
    /\ dir = None
    /\ files = None
    /\ call = None
    /\ out = <<>>
    /\ ret = Ret("init", None, TRUE, None)
    /\ populated = FALSE
    /\ effects = <<>>
    /\ second = None

TwoFilesFirst == DirFiles /\ ~IsSome(second)

TwoFilesSecond ==
    /\ IsSome(dir)
    /\ IsSome(files)
    /\ ~IsSome(second)
    /\ \E ghosts \in Orderings(FilesGhosts(world, dir.val, call.val.no_ghosts)) :
          second' = Some([files |-> FilesRec(dir.val, call.val.dots, call.val.git,
                                            call.val.git_ignoring, ghosts,
                                            FilesContext(world, dir.val)[1]),
                          out |-> <<>>])
    /\ ret' = Ret("files2", None, TRUE, None)
    /\ effects' = FilesCalls(dir.val, call.val.no_ghosts)
    /\ UNCHANGED <<world, dir, files, call, out, populated>>

\* TwoNextSecond with the two iterators sharing one cursor over the
\* entries read
TwoNextSecond_shared_cursor ==
    /\ IsSome(dir)
    /\ IsSome(second)
    /\ LET r == next(world, dir.val, second.val.files)
       IN  /\ second' = Some([files |-> r.files,
                              out |-> IF IsSome(r.file)
                                      THEN Append(second.val.out, r.file.val)
                                      ELSE second.val.out])
           /\ files' = Some([files.val EXCEPT !.inner = r.files.inner])
           /\ ret' = Ret("next2", None, TRUE, r.file)
           /\ effects' = r.calls
    /\ UNCHANGED <<world, dir, call, out, populated>>

TwoNextSecond ==
    /\ IsSome(dir)
    /\ IsSome(second)
    /\ LET r == next(world, dir.val, second.val.files)
       IN  /\ second' = Some([files |-> r.files,
                              out |-> IF IsSome(r.file)
                                      THEN Append(second.val.out, r.file.val)
                                      ELSE second.val.out])
           /\ ret' = Ret("next2", None, TRUE, r.file)
           /\ effects' = r.calls
    /\ UNCHANGED <<world, dir, files, call, out, populated>>

TwoDropFirst == FilesDrop /\ ~IsSome(second)

\* the second iterator is dropped, wherever it stands
TwoDropSecond ==
    /\ IsSome(second)
    /\ second' = None
    /\ ret' = Ret("drop2", None, TRUE, None)
    /\ effects' = <<>>
    /\ UNCHANGED <<world, dir, files, call, out, populated>>

NextTwo ==
    \/ DirNew
    \/ DirRead
    \/ DirReadDir
    \/ TwoFilesFirst
    \/ TwoFilesSecond
    \/ FilesNext
    \/ TwoNextSecond
    \/ TwoDropFirst
    \/ TwoDropSecond

SpecTwo == InitTwo /\ [][NextTwo]_vars

(***************************************************************************)
(* Listings under manifests whose keys are not all plain paths: a key      *)
(* that is a directory's prefix, a key with two slashes after the prefix,  *)
(* a key whose first segment starts with a dot.  The directories listed    *)
(* are /src and /src/a, read from disk, and the ghost directories /src/a   *)
(* and /src/a/b, built from what is_valid_ghost_dir returns for them.      *)
(***************************************************************************)
\* /src exists, /src/a does not
sGhostA == Site(pSrcA, Some(pRoot), 1, pSrc, TRUE)

\* "//.g/a": a key whose first segment starts with a dot
kDotG == Key(<<(<<DotChar>> \o nG), nA>>)

OddKeyUniverse == {kA, kAB, kABA, kASlash, kADouble, kDotG}

KeyWorlds ==
    { w \in { World(s, c, "ok", k) :
                s \in {sSrc, sSrcA, sGhostA, sGhost},
                c \in DistinctSeqs(EntryUniverse, MaxEntries),
                k \in { K \in SUBSET OddKeyUniverse : Cardinality(K) <= MaxKeys } } :
        /\ w.site.nmiss > 0 => w.children = <<>>
        /\ w.site = sSrc => \E i \in 1..Len(w.children) : w.children[i] = eMeta }

InitKeys ==
    /\ world \in KeyWorlds
    /\ dir = None
    /\ files = None
    /\ call = None
    /\ out = <<>>
    /\ ret = Ret("init", None, TRUE, None)
    /\ populated = FALSE
    /\ effects = <<>>
    /\ second = None

\* the caller asks is_valid_ghost_dir about a path that is not on disk and
\* builds the ghost Dir from the pair returned
DirNewValidGhost ==
    /\ ~IsSome(dir)
    /\ world.site.nmiss > 0
    /\ IsSome(is_valid_ghost_dir(world, world.site.path))
    /\ LET valid == is_valid_ghost_dir(world, world.site.path).val
       IN  dir' = Some(new_ghost(world.site.path, valid[1], valid[2]))
    /\ ret' = Ret("new_ghost", None, TRUE, None)
    /\ effects' = <<>>
    /\ UNCHANGED <<world, files, call, out, populated, second>>

NextKeys ==
    \/ DirReadDir
    \/ DirNewValidGhost
    \/ DirRead
    \/ DirFiles
    \/ FilesNext
    \/ FilesDrop

SpecKeys == InitKeys /\ [][NextKeys]_vars

(***************************************************************************)
(* What the claims speak of, said over the world and the caller's view.    *)
(***************************************************************************)
IsPrefixSeq(a, b) == Len(a) <= Len(b) /\ SubSeq(b, 1, Len(a)) = a

\* an entry as the caller tells entries apart: its kind and its name
Shape(file) == <<file.kind, file.name>>

Shapes(fs) == [i \in 1..Len(fs) |-> Shape(fs[i])]

\* whether a listing made with the arguments c keeps a real entry
Survives(c, entry) ==
    /\ ~(c.dots = "JustFiles" /\ entry.name # <<>> /\ entry.name[1] = DotChar)
    /\ ~(c.git_ignoring /\ IsSome(c.git) /\ entry.name \in c.git.val)

RECURSIVE Surviving(_, _)
Surviving(c, contents) ==
    IF contents = <<>> THEN <<>>
    ELSE IF Survives(c, Head(contents))
         THEN <<Head(contents)>> \o Surviving(c, Tail(contents))
         ELSE Surviving(c, Tail(contents))

\* the whole listing the claims expect of a Dir and the arguments c
ExpectedListing(d, c) ==
    (IF c.dots = "DotfilesAndDots"
     THEN <<<<"dot", <<DotChar>>>>, <<"dotdot", <<DotChar, DotChar>>>>>>
     ELSE <<>>)
    \o [i \in 1..Len(Surviving(c, d.contents)) |->
            <<"real", Surviving(c, d.contents)[i].name>>]
    \o Shapes(c.ghosts)

\* the last call was Files::next and it returned none
Exhausted == IsSome(files) /\ ret.op = "next" /\ ~IsSome(ret.val)

\* the file names physically in the directory listed
PhysicalNames(w) == { w.children[i].name : i \in 1..Len(w.children) }

ContentNames(d) == { d.contents[i].name : i \in 1..Len(d.contents) }

GhostNameSet(c) == { c.ghosts[i].name : i \in 1..Len(c.ghosts) }

\* C1: what Files::next has returned so far is always an initial part of:
\* "." then ".." (only under DotfilesAndDots, each once), then the
\* surviving real entries in the order of Dir.contents, then the ghosts;
\* so no real entry follows a ghost, and without the pseudo-entries the
\* first entry is real, or a ghost when no real entry survives.
C1_ListingOrder ==
    IsSome(files) => IsPrefixSeq(Shapes(out), ExpectedListing(dir.val, call.val))

\* a finished DotfilesAndDots listing of a directory of two entries, one of
\* them filtered out: ".", "..", a real entry, a ghost
C1_Witness ==
    /\ Exhausted
    /\ call.val.dots = "DotfilesAndDots"
    /\ Len(dir.val.contents) = 2
    /\ [i \in 1..Len(out) |-> out[i].kind] = <<"dot", "dotdot", "real", "ghost">>

\* C2: no ghost bears the name of an entry physically present in the
\* directory listed.  get_ghosts tests the names of Dir.contents instead,
\* which Dir::new leaves empty until Dir::read.
C2_NoGhostForPhysicalEntry ==
    IsSome(call) => GhostNameSet(call.val) \cap PhysicalNames(world) = {}

\* The directory listed, as the world has it: the manifest that governs it
\* and its canonical path, each an Option.  A ghost Dir carries both; any
\* other Dir has the canonical path of its site when the path exists, and
\* the manifest of /src when that file parses and /src is at or above it.
ListedCanonical(w, d) ==
    IF IsSome(d.ghost_info) THEN Some(d.ghost_info.val[2])
    ELSE IF w.site.nmiss = 0 THEN Some(w.site.real)
    ELSE None

ListedManifest(w, d) ==
    IF IsSome(d.ghost_info) THEN Some(d.ghost_info.val[1])
    ELSE IF /\ w.site.nmiss = 0
            /\ w.mst = "ok"
            /\ IsSome(PathStripPrefix(w.site.real, pSrc))
         THEN Some(ManifestInfo(pSrc, w.keys))
    ELSE None

IsUnder(path, base) == Len(base) <= Len(path) /\ SubSeq(path, 1, Len(base)) = base

\* "//" for src_root itself, otherwise "//<path relative to src_root>/"
LogicalPrefix(canonical, src_root) ==
    IF canonical = src_root THEN SS
    ELSE Key(SubSeq(canonical, Len(src_root) + 1, Len(canonical))) \o <<Slash>>

\* a listing with ghosts asked for, of a directory at or below the src_root
\* of a manifest
GhostsApply ==
    /\ IsSome(call)
    /\ ~call.val.no_ghosts
    /\ IsSome(ListedManifest(world, dir.val))
    /\ IsSome(ListedCanonical(world, dir.val))
    /\ IsUnder(ListedCanonical(world, dir.val).val,
               ListedManifest(world, dir.val).val.src_root)

ListedKeys == ListedManifest(world, dir.val).val.entries

ListedPrefix ==
    LogicalPrefix(ListedCanonical(world, dir.val).val,
                  ListedManifest(world, dir.val).val.src_root)

\* what is left of a key after the prefix
Remainder(key, prefix) == SubSeq(key, Len(prefix) + 1, Len(key))

\* C3 as claimed: the ghosts are, once each, the names N that are the
\* first segment of the remainder of a key starting with the directory's
\* logical prefix and that are no file name of Dir.contents.
C3_GhostsAreFirstSegments ==
    GhostsApply =>
        LET names == { FirstSegment(Remainder(key, ListedPrefix)) :
                         key \in { k \in ListedKeys : StartsWith(k, ListedPrefix) } }
                     \ ContentNames(dir.val)
        IN  /\ GhostNameSet(call.val) = names
            /\ Len(call.val.ghosts) = Cardinality(names)

\* C3 amended: the same of the keys that start with the prefix and go on
\* after it; a key equal to the prefix gives no ghost.
C3_GhostsAreFirstSegmentsOfLongerKeys ==
    GhostsApply =>
        LET names == { FirstSegment(Remainder(key, ListedPrefix)) :
                         key \in { k \in ListedKeys :
                                     /\ StartsWith(k, ListedPrefix)
                                     /\ Len(k) > Len(ListedPrefix) } }
                     \ ContentNames(dir.val)
        IN  /\ GhostNameSet(call.val) = names
            /\ Len(call.val.ghosts) = Cardinality(names)

\* two keys below the same first segment, and a key naming an entry read:
\* one ghost
C3_Witness ==
    /\ GhostsApply
    /\ Len(call.val.ghosts) = 1
    /\ Cardinality({ k \in ListedKeys :
                       /\ StartsWith(k, ListedPrefix \o call.val.ghosts[1].name)
                       /\ Len(k) > Len(ListedPrefix) }) = 2
    /\ dir.val.contents # <<>>

\* the listing cannot reach a manifest: the path does not canonicalize, no
\* directory named src at or above it holds a manifest file, the file does
\* not open or does not parse, or (a ghost Dir) the canonical path is not
\* below the manifest's src_root
NoManifestReachable(w, d) ==
    IF IsSome(d.ghost_info)
    THEN ~IsUnder(d.ghost_info.val[2], d.ghost_info.val[1].src_root)
    ELSE \/ w.site.nmiss > 0
         \/ ~IsUnder(w.site.real, pSrc)
         \/ w.mst \in {"absent", "unreadable", "unparsable"}

RECURSIVE RealNames(_)
RealNames(fs) ==
    IF fs = <<>> THEN <<>>
    ELSE IF Head(fs).kind = "real" THEN <<Head(fs).name>> \o RealNames(Tail(fs))
         ELSE RealNames(Tail(fs))

SurvivingNames(c, contents) ==
    [i \in 1..Len(Surviving(c, contents)) |-> Surviving(c, contents)[i].name]

\* C4: when no manifest can be reached for the directory, or its canonical
\* path is outside src_root, there is no ghost, and the finished listing
\* holds every surviving real entry.
C4_NoManifestNoGhosts ==
    (IsSome(files) /\ NoManifestReachable(world, dir.val)) =>
        /\ call.val.ghosts = <<>>
        /\ \A i \in 1..Len(out) : out[i].kind # "ghost"
        /\ Exhausted => RealNames(out) = SurvivingNames(call.val, dir.val.contents)

\* a finished listing, with ghosts asked for, of a read directory below a
\* manifest that does not parse
C4_Witness ==
    /\ Exhausted
    /\ ~call.val.no_ghosts
    /\ world.mst = "unparsable"
    /\ RealNames(out) # <<>>

\* C5: a ghost named N of a directory with logical prefix P is a zone
\* exactly when P+N is a key of the manifest.
C5_GhostZoneIffLiteralKey ==
    GhostsApply =>
        \A i \in 1..Len(call.val.ghosts) :
            call.val.ghosts[i].is_zone
                <=> (ListedPrefix \o call.val.ghosts[i].name) \in ListedKeys

\* a listing with a ghost that is a zone and a ghost that only leads to
\* deeper keys
C5_Witness ==
    /\ GhostsApply
    /\ \E i, j \in 1..Len(call.val.ghosts) :
          /\ call.val.ghosts[i].is_zone
          /\ ~call.val.ghosts[j].is_zone
          /\ \E key \in ListedKeys :
                StartsWith(key, ListedPrefix \o call.val.ghosts[j].name \o <<Slash>>)

\* C6: is_zone(p) is true exactly when p is a key of the manifest: false
\* for a path that keys only start with, for a path that starts with a key
\* and for any other path that is no key.
C6_IsZoneIffLiteralKey ==
    ret.op = "is_zone" =>
        /\ ret.ok <=> ret.arg.val \in world.keys
        /\ (ret.arg.val \notin world.keys
              /\ \E key \in world.keys : StartsWith(key, ret.arg.val)) => ~ret.ok
        /\ (ret.arg.val \notin world.keys
              /\ \E key \in world.keys : StartsWith(ret.arg.val, key)) => ~ret.ok

\* is_zone asked of "//a" when "//a/b" is a key and "//a" is not
C6_Witness ==
    /\ ret.op = "is_zone"
    /\ ret.arg.val = kA
    /\ kAB \in world.keys
    /\ kA \notin world.keys
    /\ ~ret.ok

\* C7: target_path_for(p) is none for p = src_root and for p not under
\* src_root, and otherwise "//" followed by p relative to src_root.
C7_TargetPathFor ==
    ret.op = "target_path_for" =>
        LET p == ret.arg.val
            src_root == pSrc
        IN  IF p = src_root \/ ~IsUnder(p, src_root) THEN ~IsSome(ret.val)
            ELSE ret.val = Some(Key(SubSeq(p, Len(src_root) + 1, Len(p))))

\* target_path_for asked of src_root itself
C7_Witness ==
    /\ ret.op = "target_path_for"
    /\ ret.arg.val = pSrc
    /\ ~IsSome(ret.val)

\* the canonical path the site would have: the canonical path of the part
\* that exists, then the components that do not
SiteTarget(w) ==
    w.site.real \o SubSeq(SiteAbs(w), Len(SiteAbs(w)) - w.site.nmiss + 1,
                          Len(SiteAbs(w)))

\* C8: is_valid_ghost_dir(path) returns a pair only if a manifest is found
\* for the path, the target is under its src_root and some key begins
\* with "<logical path of the target>/"; the pair is that manifest and the
\* canonical path of the target.
C8_ValidGhostDirHasChild ==
    (ret.op = "is_valid_ghost_dir" /\ IsSome(ret.val)) =>
        /\ world.mst = "ok"
        /\ IsSome(world.site.cwd)
        /\ IsUnder(SiteTarget(world), pSrc)
        /\ \E key \in world.keys :
              StartsWith(key, Key(SubSeq(SiteTarget(world), Len(pSrc) + 1,
                                         Len(SiteTarget(world)))) \o <<Slash>>)
        /\ ret.val.val = <<ManifestInfo(pSrc, world.keys), SiteTarget(world)>>

\* is_valid_ghost_dir returned a pair for a path that is not on disk
C8_Witness ==
    /\ ret.op = "is_valid_ghost_dir"
    /\ IsSome(ret.val)
    /\ world.site.nmiss > 0

\* C9: a Files iterator returns at most 2 + |Dir.contents| + |ghosts|
\* entries, and once next has returned none, the next call returns none
\* again and leaves the iterator as it is.
C9_IteratorTerminates ==
    IsSome(files) =>
        /\ Len(out) <= 2 + Len(dir.val.contents) + Len(call.val.ghosts)
        /\ Exhausted =>
              /\ ~IsSome(next(world, dir.val, files.val).file)
              /\ next(world, dir.val, files.val).files = files.val

\* an exhausted iterator that returned both pseudo-entries, every entry
\* read and a ghost
C9_Witness ==
    /\ Exhausted
    /\ Len(out) = 2 + Len(dir.val.contents) + Len(call.val.ghosts)
    /\ dir.val.contents # <<>>
    /\ call.val.ghosts # <<>>

\* C10 as claimed: once a directory read has filled contents, no call
\* reads the directory from the OS again.
C10_ReadAtMostOnce == [][populated => ret'.op # "read"]_vars

\* C10 amended: a Dir, once made, changes only in a successful Dir::read
\* of a Dir that is no ghost, made while no iterator borrows it; files,
\* Files::next, the end of an iterator, contains and join leave contents,
\* path and ghost_info as they are.
C10_OnlyReadReplacesContents ==
    [][(IsSome(dir) /\ dir' # dir) =>
            /\ ret'.op = "read"
            /\ ret'.ok
            /\ ~is_ghost(dir.val)
            /\ ~IsSome(files)
            /\ dir'.val.path = dir.val.path
            /\ dir'.val.ghost_info = dir.val.ghost_info]_vars

\* entries pulled from an iterator over a Dir that a read has filled
C10_Witness ==
    /\ populated
    /\ IsSome(files)
    /\ dir.val.contents # <<>>
    /\ Len(out) > Len(call.val.ghosts)

(***************************************************************************)
(* The listing's flags.                                                    *)
(***************************************************************************)
\* what the entry named name of the directory listed resolves to
EntryCanonical(w, name) ==
    IF name = nA /\ w.target = "gone" THEN None
    ELSE IF name = nA /\ w.target = "outside" THEN Some(Join(pOut, nA))
    ELSE Some(Join(w.site.real, name))

\* whether the world makes a kept real entry a zone: it is a directory, a
\* manifest governs the directory listed, the entry canonicalizes to a path
\* strictly below src_root and "//" + that path relative to src_root is a
\* key
ExpectedZone(w, d, file) ==
    /\ file.is_dir
    /\ IsSome(ListedManifest(w, d))
    /\ IsSome(EntryCanonical(w, file.name))
    /\ LET canonical == EntryCanonical(w, file.name).val
           src_root == ListedManifest(w, d).val.src_root
       IN  /\ IsUnder(canonical, src_root)
           /\ canonical # src_root
           /\ Key(SubSeq(canonical, Len(src_root) + 1, Len(canonical)))
                 \in ListedManifest(w, d).val.entries

Count(q, x) == Cardinality({ i \in 1..Len(q) : q[i] = x })

\* C11 as claimed: with no_ghosts set there is no manifest lookup, no ghost
\* in the listing and no real entry marked as a zone.
C11_NoGhostsSkipsManifestWork ==
    (IsSome(files) /\ call.val.no_ghosts) =>
        /\ Count(effects, "find_manifest") = 0
        /\ ~IsSome(files.val.manifest_info)
        /\ \A i \in 1..Len(out) : out[i].kind # "ghost" /\ ~out[i].is_zone

\* C11 amended: with no_ghosts set get_ghosts is not called and the listing
\* holds no ghost; the manifest is resolved all the same (find_manifest for
\* a Dir that is no ghost) and real directories get their zone flag from it.
C11_NoGhostsSuppressesGhostsOnly ==
    (IsSome(files) /\ call.val.no_ghosts) =>
        /\ call.val.ghosts = <<>>
        /\ files.val.ghosts = <<>>
        /\ \A i \in 1..Len(out) : out[i].kind # "ghost"
        /\ ret.op = "files" =>
              /\ Count(effects, "get_ghosts") = 0
              /\ Count(effects, "find_manifest") = IF is_ghost(dir.val) THEN 0 ELSE 1
        /\ files.val.manifest_info = ListedManifest(world, dir.val)
        /\ \A i \in 1..Len(out) :
              out[i].kind = "real" =>
                  (out[i].is_zone <=> ExpectedZone(world, dir.val, out[i]))

\* a listing with no_ghosts set, of a directory that would have a ghost,
\* in which a real directory is marked as a zone
C11_Witness ==
    /\ IsSome(files)
    /\ call.val.no_ghosts
    /\ get_ghosts(world, dir.val, files.val.manifest_info, None) # {}
    /\ \E i \in 1..Len(out) : out[i].kind = "real" /\ out[i].is_zone

\* the real entries of a listing whose name starts with "."
DottedReal(fs) ==
    { i \in 1..Len(fs) : fs[i].kind = "real" /\ StartsWith(fs[i].name, <<DotChar>>) }

Pseudo(fs) == { i \in 1..Len(fs) : fs[i].kind \in {"dot", "dotdot"} }

\* the names of the entries read that start with "." and that git does not
\* hide
DottedKept(c, d) ==
    { d.contents[i].name : i \in { j \in 1..Len(d.contents) :
        /\ StartsWith(d.contents[j].name, <<DotChar>>)
        /\ ~(c.git_ignoring /\ IsSome(c.git) /\ d.contents[j].name \in c.git.val) } }

\* C13: DotfilesAndDots emits "." and ".." (first and second) and keeps
\* the real entries named with a leading "."; Dotfiles emits no
\* pseudo-entry and keeps them; JustFiles emits no pseudo-entry and no real
\* entry named with a leading ".".
C13_DotFilterModes ==
    IsSome(files) =>
        /\ call.val.dots = "DotfilesAndDots" =>
              /\ Pseudo(out) = 1..(IF Len(out) < 2 THEN Len(out) ELSE 2)
              /\ Len(out) >= 1 => out[1].kind = "dot"
              /\ Len(out) >= 2 => out[2].kind = "dotdot"
              /\ Exhausted =>
                    { out[i].name : i \in DottedReal(out) }
                        = DottedKept(call.val, dir.val)
        /\ call.val.dots = "Dotfiles" =>
              /\ Pseudo(out) = {}
              /\ Exhausted =>
                    { out[i].name : i \in DottedReal(out) }
                        = DottedKept(call.val, dir.val)
        /\ call.val.dots = "JustFiles" =>
              /\ Pseudo(out) = {}
              /\ DottedReal(out) = {}

\* a finished Dotfiles listing: no pseudo-entry, and the entry .meta in it
C13_Witness ==
    /\ Exhausted
    /\ call.val.dots = "Dotfiles"
    /\ Pseudo(out) = {}
    /\ DottedReal(out) # {}

\* C14: a Dir made by new_ghost has ghost_info, a Dir made by new or
\* read_dir has none, and no operation changes that; Dir::read on a Dir
\* with ghost_info asks the OS nothing, succeeds and leaves the Dir as it
\* is, with no contents.
C14_GhostReadIsNoOp ==
    [][/\ ret'.op = "new_ghost" => is_ghost(dir'.val)
       /\ ret'.op = "new" => ~is_ghost(dir'.val)
       /\ (ret'.op = "read_dir" /\ IsSome(dir')) => ~is_ghost(dir'.val)
       /\ (IsSome(dir) /\ IsSome(dir')) => (is_ghost(dir'.val) <=> is_ghost(dir.val))
       /\ (IsSome(dir) /\ is_ghost(dir.val)
             /\ ret'.op \in {"read", "read_ghost"}) =>
              /\ ret'.op = "read_ghost"
              /\ ret'.ok
              /\ effects' = <<>>
              /\ dir' = dir
              /\ dir'.val.contents = <<>>]_vars

\* Dir::read has just returned on a ghost Dir
C14_Witness ==
    /\ ret.op = "read_ghost"
    /\ IsSome(dir)
    /\ is_ghost(dir.val)
    /\ dir.val.contents = <<>>
    /\ ~populated

\* whether the OS fails the read of the directory: it is not there, it
\* does not open, or reading one of its entries fails
OSFails(w) == w.site.nmiss > 0 \/ ~w.site.perm \/ w.site.entry_err

\* C15: Dir::read (of a Dir that is no ghost) and Dir::read_dir ask the OS
\* once; they fail exactly when the OS fails, with no contents kept, and
\* when they succeed the contents are all the entries of the directory.
C15_ReadErrorsPropagate ==
    (ret.op \in {"read", "read_dir"}) =>
        /\ effects = <<"fs::read_dir">>
        /\ ret.ok <=> ~OSFails(world)
        /\ ret.ok => dir.val.contents = world.children
        /\ (~ret.ok /\ ret.op = "read_dir") => ~IsSome(dir)
        /\ (~ret.ok /\ ret.op = "read") => dir.val.contents = <<>>

\* Dir::read has failed on a directory that opens and has entries, one of
\* which cannot be read
C15_Witness ==
    /\ ret.op = "read"
    /\ ~ret.ok
    /\ world.site.entry_err
    /\ world.children # <<>>
    /\ dir.val.contents = <<>>

\* C17: of the entries read that the dot filter keeps, the finished listing
\* lacks exactly those the GitCache reports ignored while git_ignoring is
\* set and a GitCache is given; the GitCache is asked nothing when
\* git_ignoring is not set or there is no GitCache.
C17_GitDropsOnlyIgnored ==
    IsSome(files) =>
        /\ Exhausted =>
              \A i \in 1..Len(dir.val.contents) :
                  LET name == dir.val.contents[i].name
                  IN  (call.val.dots # "JustFiles" \/ ~StartsWith(name, <<DotChar>>)) =>
                          ((\A j \in 1..Len(out) :
                                ~(out[j].kind = "real" /\ out[j].name = name))
                           <=> (/\ call.val.git_ignoring
                                /\ IsSome(call.val.git)
                                /\ name \in call.val.git.val))
        /\ (~call.val.git_ignoring \/ ~IsSome(call.val.git)) =>
              Count(effects, "GitCache::get") = 0

\* a finished listing made with a GitCache that reports b ignored and
\* git_ignoring not set: b is listed and the GitCache was not asked
C17_Witness ==
    /\ Exhausted
    /\ ~call.val.git_ignoring
    /\ call.val.git = Some({nB})
    /\ \E j \in 1..Len(out) : out[j].kind = "real" /\ out[j].name = nB
    /\ effects = <<>>

\* C18: a real entry listed is marked as a zone exactly when it is a
\* directory, a manifest governs the directory listed, the entry
\* canonicalizes to a path strictly below src_root and the logical path of
\* that path is a key; an entry that does not canonicalize, or resolves
\* outside src_root, is listed in its place, unmarked, and the entries
\* after it follow.
C18_RealZoneFlag ==
    IsSome(files) =>
        /\ \A i \in 1..Len(out) :
              out[i].kind = "real" =>
                  /\ out[i].is_zone <=> ExpectedZone(world, dir.val, out[i])
                  /\ ~IsSome(EntryCanonical(world, out[i].name)) => ~out[i].is_zone
        /\ IsPrefixSeq(RealNames(out), SurvivingNames(call.val, dir.val.contents))
        /\ Exhausted => RealNames(out) = SurvivingNames(call.val, dir.val.contents)

\* a finished listing of /src, "//a" a key: the directory a does not
\* canonicalize, it is listed unmarked and an entry follows it
C18_Witness ==
    /\ Exhausted
    /\ world.target = "gone"
    /\ kA \in world.keys
    /\ \E i \in 1..Len(out) :
          /\ out[i].kind = "real" /\ out[i].name = nA /\ ~out[i].is_zone
          /\ i < Len(out) /\ out[i + 1].kind = "real"

\* the ghosts among the entries returned
RECURSIVE GhostsOf(_)
GhostsOf(fs) ==
    IF fs = <<>> THEN <<>>
    ELSE IF Head(fs).kind = "ghost" THEN <<Head(fs)>> \o GhostsOf(Tail(fs))
         ELSE GhostsOf(Tail(fs))

\* C20: Dir::files resolves the manifest once (find_manifest once for a Dir
\* that is no ghost, none for a ghost, which brings its own) and asks
\* get_ghosts once, unless no_ghosts is set; Files::next asks neither, the
\* manifest the iterator holds is the one resolved, and the ghosts
\* returned followed by those still to come are the vector made at
\* construction.
C20_ResolvedOnceAtConstruction ==
    IsSome(files) =>
        /\ ret.op = "files" =>
              /\ Count(effects, "find_manifest") = IF is_ghost(dir.val) THEN 0 ELSE 1
              /\ Count(effects, "get_ghosts") = IF call.val.no_ghosts THEN 0 ELSE 1
              /\ out = <<>>
              /\ files.val.ghosts = call.val.ghosts
        /\ ret.op = "next" =>
              /\ Count(effects, "find_manifest") = 0
              /\ Count(effects, "get_ghosts") = 0
        /\ files.val.manifest_info = ListedManifest(world, dir.val)
        /\ GhostsOf(out) \o files.val.ghosts = call.val.ghosts

\* an exhausted iterator of a Dir that is no ghost, two ghosts returned
C20_Witness ==
    /\ Exhausted
    /\ ~is_ghost(dir.val)
    /\ Len(GhostsOf(out)) = 2
    /\ files.val.ghosts = <<>>

(***************************************************************************)
(* The manifest search.                                                    *)
(***************************************************************************)
\* the manifest the world gives a canonical path: that of the closest
\* directory named src, at or above it, that has a manifest file, if the
\* file opens and parses; none otherwise
ClosestManifest(w, canonical) ==
    IF IsUnder(canonical, pSrcSrc) /\ w.inner # "absent"
    THEN (IF w.inner = "ok" THEN Some(ManifestInfo(pSrcSrc, w.keys)) ELSE None)
    ELSE IF IsUnder(canonical, pSrc) /\ w.mst # "absent"
    THEN (IF w.mst = "ok" THEN Some(ManifestInfo(pSrc, w.keys)) ELSE None)
    ELSE None

\* C12: find_manifest answers with the manifest of the closest ancestor
\* named src that has a manifest file; when that file does not open or
\* parse the answer is none, whatever a higher src holds.
C12_ClosestSrcIsAuthoritative ==
    ret.op = "find_manifest" =>
        /\ ret.val = (IF world.site.nmiss > 0 THEN None
                      ELSE ClosestManifest(world, world.site.real))
        /\ (/\ world.site.nmiss = 0
            /\ IsUnder(world.site.real, pSrcSrc)
            /\ world.inner \in {"unreadable", "unparsable"}) => ret.val = None

\* find_manifest asked below /src/src, whose manifest does not parse while
\* that of /src does: none
C12_Witness ==
    /\ ret.op = "find_manifest"
    /\ world.site = sInner
    /\ world.inner = "unparsable"
    /\ world.mst = "ok"
    /\ world.keys # {}
    /\ ret.val = None

\* C19: find_manifest_for_ghost(path) answers with the manifest resolved
\* from the nearest ancestor of the absolute path that exists, and with
\* the canonical path of that ancestor followed by the components below
\* it, in their order; none when the current directory of a relative path
\* is unknown or no manifest is found.  The code leaves out the components
\* that have no file name: "..".
C19_GhostCanonicalPath ==
    ret.op = "find_manifest_for_ghost" =>
        ret.val =
            (IF IsRelative(world.site.path) /\ ~IsSome(world.site.cwd) THEN None
             ELSE IF ~IsSome(ClosestManifest(world, world.site.real)) THEN None
             ELSE Some(<<ClosestManifest(world, world.site.real).val,
                         SiteTarget(world)>>))

(***************************************************************************)
(* Two iterators over one Dir.                                             *)
(***************************************************************************)
\* the real entries among those returned, flags and all
RealOf(fs) == SelectSeq(fs, LAMBDA file : file.kind = "real")

\* an iterator that has gone through the entries read
RealDone(f) == f.dots = "Files" /\ f.inner = <<>>

\* C16: making an iterator, pulling from it and dropping it, wherever it
\* stands, leave the Dir as it is; two iterators made from one Dir with
\* the same arguments return the same real entries in the same order,
\* however their calls of next interleave: at any moment what one has
\* returned is an initial part of what the other has, and they agree once
\* both are through the entries read.
C16_IteratorsLeaveDirAlone ==
    /\ [][ret'.op \in {"files", "files2", "next", "next2", "drop", "drop2"}
            => dir' = dir]_vars
    /\ []((IsSome(files) /\ IsSome(second)) =>
            /\ \/ IsPrefixSeq(RealOf(out), RealOf(second.val.out))
               \/ IsPrefixSeq(RealOf(second.val.out), RealOf(out))
            /\ (RealDone(files.val) /\ RealDone(second.val.files)) =>
                  RealOf(out) = RealOf(second.val.out))

\* two iterators at different places of a Dir of two entries: the first
\* has returned both, the second, made after them, one; the first has
\* returned a ghost as well
C16_Witness ==
    /\ IsSome(files)
    /\ IsSome(second)
    /\ Len(RealOf(out)) = 2
    /\ Len(out) > 2
    /\ Len(RealOf(second.val.out)) = 1
    /\ ret.op = "next2"

(***************************************************************************)
(* The choice of src_root.                                                 *)
(***************************************************************************)
\* a path and the paths above it, closest first
RECURSIVE Ancestors(_)
Ancestors(path) ==
    IF IsSome(Parent(path)) THEN <<path>> \o Ancestors(Parent(path).val)
    ELSE <<path>>

\* the places of the ancestors that are named src and hold a manifest file
SrcCandidates(w, canonical) ==
    { i \in 1..Len(Ancestors(canonical)) :
        /\ FileName(Ancestors(canonical)[i]) = Some(SrcName)
        /\ ManifestPathExists(w, Ancestors(canonical)[i]) }

\* the smallest of a set of numbers that is not empty
Least(S) == CHOOSE i \in S : \A j \in S : i <= j

\* C21: find_manifest goes through the canonical path and its ancestors,
\* closest first, and takes as src_root the first that is named exactly src
\* and holds the manifest file: a src without the file is passed over, a
\* directory with the file under another name is never taken.  A manifest
\* returned has that src_root; none is returned exactly when there is no
\* such ancestor or the manifest of the first one does not open or parse.
C21_FirstSrcWithManifestFile ==
    (ret.op = "find_manifest" /\ IsSome(Canonicalize(world, world.site.path))) =>
        LET canonical == Canonicalize(world, world.site.path).val
            cands == SrcCandidates(world, canonical)
        IN  IF cands = {}
            THEN ret.val = None
            ELSE LET root == Ancestors(canonical)[Least(cands)]
                 IN  IF ManifestState(world, root) = "ok"
                     THEN /\ IsSome(ret.val)
                          /\ ret.val.val.src_root = root
                     ELSE ret.val = None

\* asked at /src/src/a, where a holds a manifest file of its own and
\* /src/src holds none: the manifest of /src is returned
C21_Witness ==
    /\ ret.op = "find_manifest"
    /\ world.site = sInner
    /\ world.stray
    /\ world.inner = "absent"
    /\ world.mst = "ok"
    /\ IsSome(ret.val)
    /\ ret.val.val.src_root = pSrc

(***************************************************************************)
(* Names in a listing.                                                     *)
(***************************************************************************)
\* the places in fs of the entries that are not "." or ".."
Named(fs) == { i \in 1..Len(fs) : fs[i].kind \in {"real", "ghost"} }

\* C22: the entries read having distinct file names, no two entries that
\* a listing returns, "." and ".." apart, have the same name: no ghost has
\* the name of an entry read, returned or filtered out, and no two ghosts
\* have one name.
C22_NamesAreDistinct ==
    (IsSome(files) /\ IsSome(dir)) =>
        /\ \A i, j \in Named(out) : out[i].name = out[j].name => i = j
        /\ \A i \in Named(out) :
              out[i].kind = "ghost" => out[i].name \notin ContentNames(dir.val)

\* a finished listing of /src with the entry a read and returned, the
\* ghost b returned, and a key naming a: a is listed once, as real
C22_Witness ==
    /\ Exhausted
    /\ world.site = sSrc
    /\ kA \in world.keys
    /\ \E i \in Named(out) : out[i].kind = "real" /\ out[i].name = nA
    /\ \E i \in Named(out) : out[i].kind = "ghost" /\ out[i].name = nB

(***************************************************************************)
(* Ghosts under manifests whose keys are not all plain paths.              *)
(***************************************************************************)
\* C23: a ghost Dir built from what is_valid_ghost_dir returned, listed
\* with ghosts asked for, has at least one ghost entry in its finished
\* listing.  The code takes a key equal to the directory's prefix ("//a/"
\* for /src/a) for a child in is_valid_ghost_dir and for none in get_ghosts.
C23_ValidGhostDirListsAGhost ==
    (Exhausted /\ IsSome(dir) /\ is_ghost(dir.val) /\ ~call.val.no_ghosts) =>
        GhostsOf(out) # <<>>

\* C24: under JustFiles no entry returned, real or ghost, has a name that
\* starts with a dot.  The code filters the entries read only; the ghosts
\* go out as they are.
C24_JustFilesHidesDottedGhosts ==
    (IsSome(files) /\ call.val.dots = "JustFiles") =>
        \A i \in 1..Len(out) : ~StartsWith(out[i].name, <<DotChar>>)

\* C25: every ghost returned has a name that is not empty and has no
\* slash in it.  The code takes the empty first component of a suffix
\* that starts with a slash ("//a//b" under the prefix "//a/") for a name.
C25_GhostNamesAreSegments ==
    IsSome(files) =>
        \A i \in 1..Len(call.val.ghosts) :
            /\ call.val.ghosts[i].name # <<>>
            /\ \A j \in 1..Len(call.val.ghosts[i].name) :
                  call.val.ghosts[i].name[j] # Slash

====
